---- MODULE Spec2Model ----
(***************************************************************************)
(* Replay engine and CSV import of charting_daavfx (src-tauri), modelled   *)
(* as a state machine over the managed AppState: the candle store held by  *)
(* the core, the single ReplayState behind its std::sync::Mutex, and the   *)
(* outcome of the last command handled (last). chain is a history         *)
(* variable: the cursor two commands ago when the last two commands were   *)
(* opposite steps by the same count.                                       *)
(*                                                                         *)
(* The repository holds a second binary (src/src), whose commands work on  *)
(* a core store keyed by symbol and timeframe (db); binary says which of   *)
(* the two programs a behaviour is a run of. calls, mutex and serial hold  *)
(* the commands in flight of concurrent callers, the owner of the replay   *)
(* mutex, and the history of the commands in the order they took the lock. *)
(*                                                                         *)
(* Representation                                                          *)
(*   Option<T>     a sequence of length <= 1: << >> is None, <<x>> Some(x) *)
(*   usize         0 .. UsizeMax, a scaled machine word of UsizeBits bits  *)
(*   f64 speed     tenths (1.0 is 10, 0.1 is 1, 10.0 is 100)               *)
(*   f64 progress  the pair [num, den] of the division num / den           *)
(*   f64 price     tenths, parsed from and printed to decimal text         *)
(*   Vec<T>        a sequence; Rust index k is TLA+ index k + 1            *)
(***************************************************************************)
EXTENDS Integers, Sequences, FiniteSets, TLC

VARIABLES store, replay, poisoned, last, chain, db, binary, calls, mutex, serial

vars == <<store, replay, poisoned, last, chain, db, binary, calls, mutex, serial>>

\* the state of the second binary
appVars == <<db, binary>>
\* the state of the commands in flight
concVars == <<calls, mutex, serial>>

(***************************************************************************)
(* Bounds of the model                                                     *)
(***************************************************************************)
\* rows of an imported file
MaxRows == 2
\* width of the scaled machine word standing for usize
UsizeBits == 3

UsizeMax == 2^UsizeBits - 1

Symbols == {"EURUSD", "GBPUSD"}
TimeframeLabels == {"M1", "H1"}

Min(a, b) == IF a <= b THEN a ELSE b

None == << >>
Some(x) == <<x>>
IsSome(o) == Len(o) = 1
Unwrap(o) == o[1]
\* Option::unwrap_or
UnwrapOr(o, d) == IF IsSome(o) THEN o[1] ELSE d

(***************************************************************************)
(* Text of numbers: str::parse::<i64>, str::parse::<f64>, f64::to_string   *)
(* over the lexicon of field texts the imported files use.                 *)
(***************************************************************************)
I64Text == [n \in {0, 60, 120, 180, 240} |->
              CASE n = 0 -> "0" [] n = 60 -> "60" [] n = 120 -> "120"
                [] n = 180 -> "180" [] n = 240 -> "240"]

\* parse::<i64>: Ok(n) for the decimal text of n, Err for anything else
ParseI64(s) ==
    IF \E n \in DOMAIN I64Text : I64Text[n] = s
    THEN Some(CHOOSE n \in DOMAIN I64Text : I64Text[n] = s)
    ELSE None

\* f64 values in tenths and their shortest decimal text
F64Text == [t \in {10, 15, 20, 70} |->
              CASE t = 10 -> "1" [] t = 15 -> "1.5" [] t = 20 -> "2" [] t = 70 -> "7"]

\* parse::<f64>: accepts integer and fractional decimal text
ParseF64(s) ==
    IF \E t \in DOMAIN F64Text : F64Text[t] = s
    THEN Some(CHOOSE t \in DOMAIN F64Text : F64Text[t] = s)
    ELSE None

\* f64::to_string
F64ToString(t) == F64Text[t]

(***************************************************************************)
(* Imported files: rows of comma-separated fields                          *)
(***************************************************************************)
\* the well-formed row of the k-th minute: time,open,high,low,close,volume
GoodRow(k) == <<I64Text[60 * (k - 1)], "1.5", "2", "1", "1.5", "7">>
\* the same row with an unparseable open field
BadOpenRow(k) == [GoodRow(k) EXCEPT ![2] = "abc"]

\* the first n rows of a well-formed minute series
CleanFile(n) == [k \in 1..n |-> GoodRow(k)]

\* a file: up to MaxRows rows of the minute series, or MaxRows rows with the
\* last one malformed
Files == {CleanFile(n) : n \in 0..MaxRows}
             \cup {[CleanFile(MaxRows) EXCEPT ![MaxRows] = BadOpenRow(MaxRows)]}

(***************************************************************************)
(* The core's candle store (daavfx_core::DAAVFXCore)                       *)
(***************************************************************************)
\* DAAVFXCore::new(): nothing stored
EmptyStore == [s \in Symbols |-> None]
\* core.get_ohlcv(&symbol) -> Option<Vec<OHLCV>>
get_ohlcv(st, symbol) == st[symbol]
\* core.save_ohlcv(&symbol, &data)
save_ohlcv(st, symbol, data) == [st EXCEPT ![symbol] = Some(data)]

(***************************************************************************)
(* import_csv_data (src-tauri)                                             *)
(***************************************************************************)
\* one line: Some(candle) when it has >= 6 parts and parts 0..4 parse
ParseLine(parts) ==
    IF Len(parts) >= 6
       /\ IsSome(ParseI64(parts[1]))
       /\ IsSome(ParseF64(parts[2]))
       /\ IsSome(ParseF64(parts[3]))
       /\ IsSome(ParseF64(parts[4]))
       /\ IsSome(ParseF64(parts[5]))
    THEN Some([time   |-> Unwrap(ParseI64(parts[1])),
               open   |-> Unwrap(ParseF64(parts[2])),
               high   |-> Unwrap(ParseF64(parts[3])),
               low    |-> Unwrap(ParseF64(parts[4])),
               close  |-> Unwrap(ParseF64(parts[5])),
               volume |-> 0])
    ELSE None

\* the loop over reader.lines(): data.push for each line that parses
RECURSIVE ParseLines(_)
ParseLines(lines) ==
    IF lines = << >> THEN << >>
    ELSE ParseLine(Head(lines)) \o ParseLines(Tail(lines))

\* the handler: the new store and the returned Ok(data.len())
import_csv_data(st, file, symbol) ==
    LET data == ParseLines(file)
    IN [store |-> save_ohlcv(st, symbol, data), outcome |-> "ok",
        ret |-> [count |-> Len(data)]]

(***************************************************************************)
(* ReplayState and the replay commands                                     *)
(* Each command is an operator from the state before (and the arguments)   *)
(* to [replay, poisoned, outcome, ret]: outcome is "ok" (Ok returned),     *)
(* "err" (Err returned) or "panic" (the handler panicked).                 *)
(***************************************************************************)
\* impl Default for ReplayState
DefaultReplayState ==
    [symbol |-> "", timeframe |-> "H1", data |-> << >>,
     current_index |-> 0, speed |-> 10, is_playing |-> FALSE]

Ok(r, ret) == [replay |-> r, poisoned |-> FALSE, outcome |-> "ok", ret |-> ret]
Err(r, p, msg) == [replay |-> r, poisoned |-> p, outcome |-> "err", ret |-> [msg |-> msg]]
\* a panic while the MutexGuard is alive poisons the mutex
Panic(r, why) == [replay |-> r, poisoned |-> TRUE, outcome |-> "panic", ret |-> [panic |-> why]]
\* replay_state.lock().unwrap() on a poisoned mutex
LockPanic(r) == Panic(r, "PoisonError")

\* current_index as f64 / data.len() as f64
Progress(r) == [num |-> r.current_index, den |-> Len(r.data)]

\* the ReplayUpdate built from the candle under the cursor
ReplayUpdate(r) ==
    LET candle == r.data[r.current_index + 1]
    IN [current_index |-> r.current_index,
        total_candles |-> Len(r.data),
        time          |-> candle.time,
        open          |-> F64ToString(candle.open),
        high          |-> F64ToString(candle.high),
        low           |-> F64ToString(candle.low),
        close         |-> F64ToString(candle.close),
        progress      |-> Progress(r)]

\* load_replay_session as it would be without `replay.current_index = 0`
LoadSession_KeepCursor(r, symbol, data) ==
    [r EXCEPT !.symbol = symbol, !.data = data,
              !.speed = 10, !.is_playing = FALSE]

\* the fields load_replay_session assigns under the lock
LoadSession(r, symbol, data) ==
    [r EXCEPT !.symbol = symbol, !.data = data,
              !.current_index = 0, !.speed = 10, !.is_playing = FALSE]

\* the ReplayInfo as it would be with end_time read from data[0]
ReplayInfo_EndIsStart(r, symbol, timeframe) ==
    [total_candles |-> Len(r.data),
     current_index |-> 0,
     start_time    |-> r.data[1].time,
     end_time      |-> r.data[1].time,
     symbol        |-> symbol,
     timeframe     |-> timeframe,
     is_playing    |-> FALSE,
     speed         |-> 10]

\* the ReplayInfo load_replay_session returns; data[0] and data[len - 1]
\* are read from a non-empty Vec here
ReplayInfo(r, symbol, timeframe) ==
    [total_candles |-> Len(r.data),
     current_index |-> 0,
     start_time    |-> r.data[1].time,
     end_time      |-> r.data[Len(r.data)].time,
     symbol        |-> symbol,
     timeframe     |-> timeframe,
     is_playing    |-> FALSE,
     speed         |-> 10]

\* the store is read before the lock is taken; indexing the empty Vec
\* panics after the fields were assigned, with the guard alive
\* load_replay_session from replay_state.lock() on, with the series data
\* it read from the store before
load_replay_session_locked(data, r, p, symbol, timeframe) ==
    LET r2 == LoadSession(r, symbol, data)
    IN IF p THEN LockPanic(r)
       ELSE IF Len(r2.data) = 0 THEN Panic(r2, "index out of bounds")
       ELSE Ok(r2, ReplayInfo(r2, symbol, timeframe))

\* load_replay_session with nothing running between its store read and its lock
load_replay_session(st, r, p, symbol, timeframe) ==
    LET data == get_ohlcv(st, symbol)
    IN IF ~IsSome(data) THEN Err(r, p, "No data found")
       ELSE load_replay_session_locked(Unwrap(data), r, p, symbol, timeframe)

\* start_replay as it would be with is_playing set before the emptiness check
start_replay_SetBeforeCheck(r, p) ==
    IF p THEN LockPanic(r)
    ELSE IF Len(r.data) = 0
         THEN Err([r EXCEPT !.is_playing = TRUE], p, "No replay session loaded")
    ELSE Ok([r EXCEPT !.is_playing = TRUE], [unit |-> TRUE])

\* start_replay as it would be without the emptiness check
start_replay_NoCheck(r, p) ==
    IF p THEN LockPanic(r)
    ELSE Ok([r EXCEPT !.is_playing = TRUE], [unit |-> TRUE])

start_replay(r, p) ==
    IF p THEN LockPanic(r)
    ELSE IF Len(r.data) = 0 THEN Err(r, p, "No replay session loaded")
    ELSE Ok([r EXCEPT !.is_playing = TRUE], [unit |-> TRUE])

pause_replay(r, p) ==
    IF p THEN LockPanic(r)
    ELSE Ok([r EXCEPT !.is_playing = FALSE], [unit |-> TRUE])

stop_replay(r, p) ==
    IF p THEN LockPanic(r)
    ELSE Ok([r EXCEPT !.is_playing = FALSE, !.current_index = 0], [unit |-> TRUE])

\* the step as it would be with the steps argument dropped for the default 1
StepForwardIndex_IgnoreSteps(i, steps, len) == Min((i + 1) % (UsizeMax + 1), len - 1)

\* (current_index + steps).min(len - 1) once the sum is known not to abort
StepForwardIndex(i, steps, len) == Min((i + steps) % (UsizeMax + 1), len - 1)

step_forward(r, p, oc, steps_opt) ==
    LET steps == UnwrapOr(steps_opt, 1)
        r2 == [r EXCEPT !.current_index = StepForwardIndex(r.current_index, steps, Len(r.data)),
                        !.is_playing = FALSE]
    IN IF p THEN LockPanic(r)
       ELSE IF Len(r.data) = 0 THEN Err(r, p, "No replay session")
       ELSE IF oc /\ r.current_index + steps > UsizeMax
            THEN Panic(r, "attempt to add with overflow")
       ELSE Ok(r2, ReplayUpdate(r2))

\* current_index.saturating_sub(steps)
SaturatingSub(i, steps) == IF steps >= i THEN 0 ELSE i - steps

step_backward(r, p, steps_opt) ==
    LET steps == UnwrapOr(steps_opt, 1)
        r2 == [r EXCEPT !.current_index = SaturatingSub(r.current_index, steps),
                        !.is_playing = FALSE]
    IN IF p THEN LockPanic(r)
       ELSE IF Len(r.data) = 0 THEN Err(r, p, "No replay session")
       ELSE Ok(r2, ReplayUpdate(r2))

\* f64::clamp(0.1, 10.0), in tenths
ClampSpeed(v) == IF v < 1 THEN 1 ELSE IF v > 100 THEN 100 ELSE v

set_replay_speed(r, p, speed) ==
    IF p THEN LockPanic(r)
    ELSE Ok([r EXCEPT !.speed = ClampSpeed(speed)], [unit |-> TRUE])

seek_to_index(r, p, index) ==
    LET r2 == [r EXCEPT !.current_index = Min(index, Len(r.data) - 1),
                        !.is_playing = FALSE]
    IN IF p THEN LockPanic(r)
       ELSE IF Len(r.data) = 0 THEN Err(r, p, "No replay session")
       ELSE Ok(r2, ReplayUpdate(r2))

get_replay_state(r, p) ==
    IF p THEN LockPanic(r)
    ELSE IF Len(r.data) = 0
         THEN Ok(r, [is_loaded |-> FALSE, is_playing |-> FALSE, current_index |-> 0,
                     total_candles |-> 0, speed |-> 10, symbol |-> "",
                     timeframe |-> "", progress |-> [num |-> 0, den |-> 1]])
    ELSE Ok(r, [is_loaded |-> TRUE, is_playing |-> r.is_playing,
                current_index |-> r.current_index, total_candles |-> Len(r.data),
                speed |-> r.speed, symbol |-> r.symbol,
                timeframe |-> "", progress |-> Progress(r)])

(***************************************************************************)
(* The state machine                                                       *)
(***************************************************************************)
\* arguments the callers pass
StepArgs == {0, UsizeMax}
StepOpts == {None} \cup {Some(n) : n \in StepArgs}
\* speeds in tenths: below the range, inside it and above it
SpeedArgs == {0, 10, 1000}
\* the timeframe label the UI passes to load_replay_session
ReplayTimeframes == {"M1"}
\* the build's overflow-checks setting: on in a debug profile (the addition
\* panics), off in a release profile (the addition wraps)
OverflowChecks == BOOLEAN

NoCommand == [op |-> "none", arg |-> << >>, outcome |-> "none", ret |-> [unit |-> TRUE],
              pre |-> DefaultReplayState, pre_poisoned |-> FALSE, read |-> None]

\* the record of a handled command: what was called, on which state, with what result
Handled(op, arg, res) ==
    [op |-> op, arg |-> arg, outcome |-> res.outcome, ret |-> res.ret,
     pre |-> replay, pre_poisoned |-> poisoned, read |-> None]

\* DAAVFXCore::new("charting_data.db") of src/src: nothing stored
EmptyDb == [k \in Symbols \X TimeframeLabels |-> None]

\* the callers of the replay commands: the UI and the timer driving autoplay
Callers == {"ui", "timer"}
\* a caller with no command in flight
IdleCall == [pc |-> 0, op |-> "none", arg |-> << >>, oc |-> FALSE, data |-> None]
\* load_replay_session with the lock taken before the store is read
ProgramOrder_LockFirst(op) ==
    IF op = "load_replay_session"
    THEN <<"lock", "get_ohlcv", "symbol", "data", "current_index", "speed", "is_playing",
           "return">>
    ELSE IF op \in {"step_forward", "step_backward", "seek_to_index"}
    THEN <<"lock", "is_empty", "current_index", "is_playing", "return">>
    ELSE IF op = "start_replay" THEN <<"lock", "is_empty", "is_playing", "return">>
    ELSE IF op = "stop_replay" THEN <<"lock", "is_playing", "current_index", "return">>
    ELSE <<"lock", "is_playing", "return">>

\* the statements of each handler in program order; "return" builds the
\* returned value and drops the guard
ProgramOrder(op) ==
    IF op = "load_replay_session"
    THEN <<"get_ohlcv", "lock", "symbol", "data", "current_index", "speed", "is_playing",
           "return">>
    ELSE IF op \in {"step_forward", "step_backward", "seek_to_index"}
    THEN <<"lock", "is_empty", "current_index", "is_playing", "return">>
    ELSE IF op = "start_replay" THEN <<"lock", "is_empty", "is_playing", "return">>
    ELSE IF op = "stop_replay" THEN <<"lock", "is_playing", "current_index", "return">>
    ELSE <<"lock", "is_playing", "return">>

\* the statement caller c executes next
Stmt(c) ==
    IF calls[c].pc = 0 THEN "idle" ELSE ProgramOrder(calls[c].op)[calls[c].pc]

\* nothing has taken the lock yet
NoneSerial == [replay |-> DefaultReplayState, poisoned |-> FALSE]

\* src-tauri's main(): the managed AppState
Init ==
    /\ store = EmptyStore
    /\ replay = DefaultReplayState
    /\ poisoned = FALSE
    /\ last = NoCommand
    /\ chain = None
    /\ db = EmptyDb
    /\ binary = "tauri"
    /\ calls = [c \in Callers |-> IdleCall]
    /\ mutex = None
    /\ serial = NoneSerial

\* a replay command with result res: the store is not written
Replay(op, arg, res) ==
    /\ replay' = res.replay
    /\ poisoned' = res.poisoned
    /\ last' = Handled(op, arg, res)
    /\ UNCHANGED <<store, appVars, concVars>>

\* the files imported for a symbol: any of Files for EURUSD, the full
\* minute series for GBPUSD
ImportFiles(symbol) == IF symbol = "EURUSD" THEN Files ELSE {CleanFile(MaxRows)}

ImportCsvData ==
    \E symbol \in Symbols :
      \E file \in ImportFiles(symbol) :
        LET res == import_csv_data(store, file, symbol)
        IN /\ store' = res.store
           /\ last' = Handled("import_csv_data", <<symbol>>, res)
           /\ chain' = None
           /\ UNCHANGED <<replay, poisoned, appVars, concVars>>

\* load_replay_session up to its store read (commands.rs:110-114): None
\* returns Err at once; Some(d) leaves the call, a task of its own, before
\* replay_state.lock() with d in hand. Other commands, further loads among
\* them, can run before it goes on; Callers bounds the loads in flight
LoadReplaySession ==
    /\ \E symbol \in Symbols, timeframe \in ReplayTimeframes :
          LET data == get_ohlcv(store, symbol)
          IN IF ~IsSome(data)
             THEN /\ last' = Handled("load_replay_session", <<symbol, timeframe>>,
                                     Err(replay, poisoned, "No data found"))
                  /\ chain' = None
                  /\ UNCHANGED calls
             ELSE /\ \E c \in Callers :
                        /\ calls[c].pc = 0
                        /\ calls' = [calls EXCEPT ![c] =
                                        [IdleCall EXCEPT !.pc = 2,
                                                         !.op = "load_replay_session",
                                                         !.arg = <<symbol, timeframe>>,
                                                         !.data = data]]
                  /\ UNCHANGED <<last, chain>>
    /\ UNCHANGED <<store, replay, poisoned, appVars, mutex, serial>>

\* load_replay_session of one of the calls in flight, from
\* replay_state.lock() to its return (commands.rs:116-132), with the series
\* it read earlier
LoadReplaySessionLocked ==
    \E c \in Callers :
        /\ Stmt(c) = "lock"
        /\ LET cl == calls[c]
               res == load_replay_session_locked(Unwrap(cl.data), replay, poisoned,
                                                 cl.arg[1], cl.arg[2])
           IN /\ replay' = res.replay
              /\ poisoned' = res.poisoned
              /\ last' = [Handled("load_replay_session", cl.arg, res) EXCEPT !.read = cl.data]
        /\ calls' = [calls EXCEPT ![c] = IdleCall]
        /\ chain' = None
        /\ UNCHANGED <<store, appVars, mutex, serial>>

StartReplay ==
    /\ Replay("start_replay", << >>, start_replay(replay, poisoned))
    /\ chain' = None

PauseReplay ==
    /\ Replay("pause_replay", << >>, pause_replay(replay, poisoned))
    /\ chain' = None

StopReplay ==
    /\ Replay("stop_replay", << >>, stop_replay(replay, poisoned))
    /\ chain' = None

StepForwardCmd(steps, oc) ==
    Replay("step_forward", steps, step_forward(replay, poisoned, oc, steps))

StepBackwardCmd(steps) ==
    Replay("step_backward", steps, step_backward(replay, poisoned, steps))

StepForward ==
    \E steps \in StepOpts, oc \in OverflowChecks :
        StepForwardCmd(steps, oc) /\ chain' = None

StepBackward ==
    \E steps \in StepOpts :
        StepBackwardCmd(steps) /\ chain' = None

SetReplaySpeed ==
    \E speed \in SpeedArgs :
        /\ Replay("set_replay_speed", <<speed>>, set_replay_speed(replay, poisoned, speed))
        /\ chain' = None

SeekToIndex ==
    \E index \in StepArgs :
        /\ Replay("seek_to_index", <<index>>, seek_to_index(replay, poisoned, index))
        /\ chain' = None

GetReplayState ==
    /\ Replay("get_replay_state", << >>, get_replay_state(replay, poisoned))
    /\ chain' = None

Next ==
    \/ ImportCsvData
    \/ LoadReplaySession
    \/ LoadReplaySessionLocked
    \/ StartReplay
    \/ PauseReplay
    \/ StopReplay
    \/ StepForward
    \/ StepBackward
    \/ SetReplaySpeed
    \/ SeekToIndex
    \/ GetReplayState

Spec == Init /\ [][Next]_vars

(***************************************************************************)
(* Stepping with history: the same commands, with chain recording the      *)
(* cursor before the previous command when this step undoes it (the        *)
(* previous command was the opposite step, by the same count, on a loaded  *)
(* session).                                                               *)
(***************************************************************************)
Chained(op, steps) ==
    IF /\ last.op = op
       /\ UnwrapOr(last.arg, 1) = UnwrapOr(steps, 1)
       /\ Len(last.pre.data) > 0
    THEN Some(last.pre.current_index)
    ELSE None

StepForwardChained ==
    \E steps \in StepOpts, oc \in OverflowChecks :
        StepForwardCmd(steps, oc) /\ chain' = Chained("step_backward", steps)

StepBackwardChained ==
    \E steps \in StepOpts :
        StepBackwardCmd(steps) /\ chain' = Chained("step_forward", steps)

NextSteps ==
    \/ ImportCsvData
    \/ LoadReplaySession
    \/ LoadReplaySessionLocked
    \/ StartReplay
    \/ StepForwardChained
    \/ StepBackwardChained

SpecSteps == Init /\ [][NextSteps]_vars

(***************************************************************************)
(* The data commands of the two binaries: import_csv_data and              *)
(* load_ohlcv_data of src-tauri (on store), import_csv_data,               *)
(* load_ohlcv_data and get_data_window of src/src (on db).                 *)
(***************************************************************************)
\* a row whose volume field does not parse
BadVolumeRow(k) == [GoodRow(k) EXCEPT ![6] = "abc"]

DataRowsAt(k) == {GoodRow(k), BadOpenRow(k), BadVolumeRow(k)}

\* the files imported: up to MaxRows rows, the k-th one of the k-th minute,
\* well-formed or with one unparseable field
DataFiles == UNION {{f \in [1..n -> UNION {DataRowsAt(k) : k \in 1..n}] :
                        \A k \in 1..n : f[k] \in DataRowsAt(k)} : n \in 0..MaxRows}

\* the symbol the files are imported for; the other one is never stored
ImportSymbols == {"EURUSD"}
\* timeframe labels the callers of src/src pass: a valid one and an invalid one
AppTimeframeArgs == {"M1", "bogus"}
\* start_idx and end_idx of get_data_window
WindowArgs == 0..MaxRows

\* TimeFrame::from_str: Some for a label of the enumeration
TimeFrameFromStr(label) == IF label \in TimeframeLabels THEN Some(label) ELSE None
\* TimeFrame::display
TimeFrameDisplay(tf) == tf

\* core.get_ohlcv(&symbol, tf) of src/src: Err when nothing is stored
db_get_ohlcv(d, symbol, tf) == d[<<symbol, tf>>]
\* core.save_ohlcv(&symbol, tf, &candles)
db_save_ohlcv(d, symbol, tf, candles) == [d EXCEPT ![<<symbol, tf>>] = Some(candles)]

\* str::parse::<Decimal>
ParseDecimal(s) == ParseF64(s)
\* to_string of a volume: an integer 0 (src-tauri) or a Decimal (src/src)
VolumeToString(v) == IF v = 0 THEN "0" ELSE F64ToString(v)

\* OHLCVResponse built from a candle
OHLCVResponse(c) ==
    [time   |-> c.time,
     open   |-> F64ToString(c.open),
     high   |-> F64ToString(c.high),
     low    |-> F64ToString(c.low),
     close  |-> F64ToString(c.close),
     volume |-> VolumeToString(c.volume)]

Responses(data) == [k \in 1..Len(data) |-> OHLCVResponse(data[k])]

\* the result of a data command: the store or db after it and what it returns
DataOk(st, ret) == [store |-> st, outcome |-> "ok", ret |-> ret]
DataErr(st, msg) == [store |-> st, outcome |-> "err", ret |-> [msg |-> msg]]
DataPanic(st, why) == [store |-> st, outcome |-> "panic", ret |-> [panic |-> why]]

\* load_ohlcv_data of src-tauri
load_ohlcv_data(st, symbol) ==
    LET data == get_ohlcv(st, symbol)
    IN IF ~IsSome(data) THEN DataOk(st, << >>)
       ELSE DataOk(st, Responses(Unwrap(data)))

\* load_ohlcv_data of src/src
app_load_ohlcv_data(d, symbol, timeframe) ==
    LET tf == TimeFrameFromStr(timeframe)
        data == db_get_ohlcv(d, symbol, Unwrap(tf))
    IN IF ~IsSome(tf) THEN DataErr(d, "Invalid timeframe")
       ELSE IF ~IsSome(data) THEN DataErr(d, "SymbolNotFound")
       ELSE DataOk(d, Responses(Unwrap(data)))

\* &data[start_idx..end_idx.min(data.len())]: the slice panics when the
\* start is past the clamped end
get_data_window(d, symbol, timeframe, start_idx, end_idx) ==
    LET tf == TimeFrameFromStr(timeframe)
        data == db_get_ohlcv(d, symbol, Unwrap(tf))
        end == Min(end_idx, Len(Unwrap(data)))
    IN IF ~IsSome(tf) THEN DataErr(d, "Invalid timeframe")
       ELSE IF ~IsSome(data) THEN DataErr(d, "SymbolNotFound")
       ELSE IF start_idx > end THEN DataPanic(d, "slice index starts past its end")
       ELSE DataOk(d, Responses(SubSeq(Unwrap(data), start_idx + 1, end)))

\* one record of src/src's import: skipped when short, an error for the
\* first of time, open, high, low, close that does not parse, else a candle
\* whose volume falls back to Decimal::ZERO
AppParseRecord(record) ==
    IF Len(record) < 6 THEN [kind |-> "skip"]
    ELSE IF ~IsSome(ParseI64(record[1])) THEN [kind |-> "err", msg |-> "Invalid time"]
    ELSE IF ~IsSome(ParseDecimal(record[2])) THEN [kind |-> "err", msg |-> "Invalid open"]
    ELSE IF ~IsSome(ParseDecimal(record[3])) THEN [kind |-> "err", msg |-> "Invalid high"]
    ELSE IF ~IsSome(ParseDecimal(record[4])) THEN [kind |-> "err", msg |-> "Invalid low"]
    ELSE IF ~IsSome(ParseDecimal(record[5])) THEN [kind |-> "err", msg |-> "Invalid close"]
    ELSE [kind |-> "candle",
          candle |-> [time   |-> Unwrap(ParseI64(record[1])),
                      open   |-> Unwrap(ParseDecimal(record[2])),
                      high   |-> Unwrap(ParseDecimal(record[3])),
                      low    |-> Unwrap(ParseDecimal(record[4])),
                      close  |-> Unwrap(ParseDecimal(record[5])),
                      volume |-> UnwrapOr(ParseDecimal(record[6]), 0)]]

\* the loop over rdr.records(): the candles pushed, or the first error
RECURSIVE AppParseRecords(_, _)
AppParseRecords(records, candles) ==
    IF records = << >> THEN [err |-> None, candles |-> candles]
    ELSE LET one == AppParseRecord(Head(records))
         IN IF one.kind = "err" THEN [err |-> Some(one.msg), candles |-> candles]
            ELSE IF one.kind = "skip" THEN AppParseRecords(Tail(records), candles)
            ELSE AppParseRecords(Tail(records), Append(candles, one.candle))

\* csv::Reader::from_path reads with has_headers on: records() does not
\* yield the first row of the file
CsvRecords(file) == IF file = << >> THEN << >> ELSE Tail(file)

\* import_csv_data of src/src
app_import_csv_data(d, file, symbol, timeframe) ==
    LET tf == TimeFrameFromStr(timeframe)
        parsed == AppParseRecords(CsvRecords(file), << >>)
    IN IF ~IsSome(tf) THEN DataErr(d, "Invalid timeframe")
       ELSE IF IsSome(parsed.err) THEN DataErr(d, Unwrap(parsed.err))
       ELSE DataOk(db_save_ohlcv(d, symbol, Unwrap(tf), parsed.candles),
                   [candles_imported |-> Len(parsed.candles),
                    symbol           |-> symbol,
                    timeframe        |-> TimeFrameDisplay(Unwrap(tf))])

Binaries == {"tauri", "app"}

\* either binary after its main() built the state
InitData ==
    /\ store = EmptyStore
    /\ replay = DefaultReplayState
    /\ poisoned = FALSE
    /\ last = NoCommand
    /\ chain = None
    /\ db = EmptyDb
    /\ binary \in Binaries
    /\ calls = [c \in Callers |-> IdleCall]
    /\ mutex = None
    /\ serial = NoneSerial

\* a data command of src-tauri with result res
TauriData(op, arg, res) ==
    /\ binary = "tauri"
    /\ store' = res.store
    /\ last' = Handled(op, arg, res)
    /\ UNCHANGED <<replay, poisoned, chain, appVars, concVars>>

\* a data command of src/src with result res
AppData(op, arg, res) ==
    /\ binary = "app"
    /\ db' = res.store
    /\ last' = Handled(op, arg, res)
    /\ UNCHANGED <<store, replay, poisoned, chain, binary, concVars>>

ImportCsvFile ==
    \E file \in DataFiles, symbol \in ImportSymbols :
        TauriData("import_csv_data", [symbol |-> symbol, file |-> file],
                  import_csv_data(store, file, symbol))

LoadOhlcvData ==
    \E symbol \in Symbols :
        TauriData("load_ohlcv_data", [symbol |-> symbol], load_ohlcv_data(store, symbol))

AppImportCsvData ==
    \E file \in DataFiles, symbol \in ImportSymbols, timeframe \in AppTimeframeArgs :
        AppData("import_csv_data", [symbol |-> symbol, timeframe |-> timeframe, file |-> file],
                app_import_csv_data(db, file, symbol, timeframe))

AppLoadOhlcvData ==
    \E symbol \in Symbols, timeframe \in AppTimeframeArgs :
        AppData("load_ohlcv_data", [symbol |-> symbol, timeframe |-> timeframe],
                app_load_ohlcv_data(db, symbol, timeframe))

AppGetDataWindow ==
    \E symbol \in Symbols, timeframe \in AppTimeframeArgs,
       start_idx \in WindowArgs, end_idx \in WindowArgs :
        AppData("get_data_window",
                [symbol |-> symbol, timeframe |-> timeframe,
                 start_idx |-> start_idx, end_idx |-> end_idx],
                get_data_window(db, symbol, timeframe, start_idx, end_idx))

NextData ==
    \/ ImportCsvFile
    \/ LoadOhlcvData
    \/ AppImportCsvData
    \/ AppLoadOhlcvData
    \/ AppGetDataWindow

SpecData == InitData /\ [][NextData]_vars

(***************************************************************************)
(* The replay commands called concurrently (src-tauri)                     *)
(* Tauri runs each async command on its thread pool, so two commands can   *)
(* be in flight at once. A call advances one statement of its handler at a *)
(* time: calls[c].pc is the position in ProgramOrder(op), mutex is the     *)
(* holder of replay_state's lock. serial follows the same commands run one *)
(* at a time, in the order in which they take the lock, each load with the *)
(* series it read. import_csv_data takes no replay lock and writes the     *)
(* store in one save_ohlcv call, so it is one step.                        *)
(***************************************************************************)
\* the files imported while replay commands run: EURUSD series start at
\* minute 0, GBPUSD ones are empty or start at minute 1, so that a series
\* tells which symbol it was stored for
ConcFiles(symbol) ==
    IF symbol = "EURUSD" THEN {CleanFile(MaxRows - 1), CleanFile(MaxRows)}
    ELSE {<< >>, Tail(CleanFile(MaxRows))}

\* the commands the callers issue, with their arguments
ConcCommands ==
    {[op |-> "load_replay_session", arg |-> <<symbol>>] : symbol \in Symbols}
    \cup {[op |-> o, arg |-> << >>] : o \in {"start_replay", "pause_replay", "stop_replay"}}
    \cup {[op |-> "step_forward", arg |-> Some(n)] : n \in {1, UsizeMax}}
    \cup {[op |-> "step_backward", arg |-> Some(1)]}
    \cup {[op |-> "seek_to_index", arg |-> <<index>>] : index \in {0, UsizeMax}}

\* a lock that never blocks
CanLock_Always(c) == TRUE

\* Mutex::lock blocks while another guard is alive
CanLock(c) == mutex = None

\* the right-hand side of the assignment to current_index in each handler
NewIndex(cl, r) ==
    IF cl.op = "step_forward"
    THEN StepForwardIndex(r.current_index, UnwrapOr(cl.arg, 1), Len(r.data))
    ELSE IF cl.op = "step_backward" THEN SaturatingSub(r.current_index, UnwrapOr(cl.arg, 1))
    ELSE IF cl.op = "seek_to_index" THEN Min(cl.arg[1], Len(r.data) - 1)
    ELSE 0

\* ReplayState after one assignment statement of the handler of call cl
Assign(cl, stmt, r) ==
    IF stmt = "symbol" THEN [r EXCEPT !.symbol = cl.arg[1]]
    ELSE IF stmt = "data" THEN [r EXCEPT !.data = Unwrap(cl.data)]
    ELSE IF stmt = "current_index" THEN [r EXCEPT !.current_index = NewIndex(cl, r)]
    ELSE IF stmt = "speed" THEN [r EXCEPT !.speed = 10]
    ELSE [r EXCEPT !.is_playing = (cl.op = "start_replay")]

\* the statement panics: the checked addition overflows, or the value
\* returned indexes data out of bounds
StmtPanics(cl, stmt, r) ==
    \/ /\ stmt = "current_index"
       /\ cl.op = "step_forward"
       /\ cl.oc
       /\ r.current_index + UnwrapOr(cl.arg, 1) > UsizeMax
    \/ /\ stmt = "return"
       /\ cl.op = "load_replay_session"
       /\ Len(r.data) = 0
    \/ /\ stmt = "return"
       /\ cl.op \in {"step_forward", "step_backward", "seek_to_index"}
       /\ r.current_index >= Len(r.data)

\* the command of call cl run on its own on the state s; a load goes on
\* from the series it has read, or reads the store if it has none yet
Sequential(cl, s) ==
    LET r == s.replay
        p == s.poisoned
        res == IF cl.op = "load_replay_session"
                   THEN IF IsSome(cl.data)
                        THEN load_replay_session_locked(Unwrap(cl.data), r, p, cl.arg[1], "M1")
                        ELSE load_replay_session(store, r, p, cl.arg[1], "M1")
               ELSE IF cl.op = "start_replay" THEN start_replay(r, p)
               ELSE IF cl.op = "pause_replay" THEN pause_replay(r, p)
               ELSE IF cl.op = "stop_replay" THEN stop_replay(r, p)
               ELSE IF cl.op = "step_forward" THEN step_forward(r, p, cl.oc, cl.arg)
               ELSE IF cl.op = "step_backward" THEN step_backward(r, p, cl.arg)
               ELSE seek_to_index(r, p, cl.arg[1])
    IN [replay |-> res.replay, poisoned |-> res.poisoned]

\* src-tauri's main(): the managed AppState, no command in flight
InitConc ==
    /\ store = EmptyStore
    /\ replay = DefaultReplayState
    /\ poisoned = FALSE
    /\ last = NoCommand
    /\ chain = None
    /\ db = EmptyDb
    /\ binary = "tauri"
    /\ calls = [c \in Callers |-> IdleCall]
    /\ mutex = None
    /\ serial = NoneSerial

\* the caller goes on to its next statement
Advance(c) == calls' = [calls EXCEPT ![c].pc = @ + 1]

\* the handler returns or unwinds: the guard, if the call has one, is dropped
Leave(c) ==
    /\ calls' = [calls EXCEPT ![c] = IdleCall]
    /\ mutex' = IF mutex = Some(c) THEN None ELSE mutex

\* caller c invokes a command
ConcCall(c) ==
    /\ calls[c].pc = 0
    /\ \E cmd \in ConcCommands :
          calls' = [calls EXCEPT ![c] = [IdleCall EXCEPT !.pc = 1, !.op = cmd.op,
                                                         !.arg = cmd.arg]]
    /\ UNCHANGED <<store, replay, poisoned, last, chain, appVars, mutex, serial>>

\* import_csv_data of a file, by any caller
ConcImport ==
    /\ \E symbol \in Symbols :
          \E file \in ConcFiles(symbol) :
              store' = import_csv_data(store, file, symbol).store
    /\ UNCHANGED <<replay, poisoned, last, chain, appVars, concVars>>

\* state.core.get_ohlcv(&symbol): None returns Err("No data found")
ConcGetOhlcv(c) ==
    /\ Stmt(c) = "get_ohlcv"
    /\ LET data == get_ohlcv(store, calls[c].arg[1])
       IN IF IsSome(data)
          THEN /\ calls' = [calls EXCEPT ![c].pc = @ + 1, ![c].data = data]
               /\ UNCHANGED mutex
          ELSE Leave(c)
    /\ UNCHANGED <<store, replay, poisoned, last, chain, appVars, serial>>

\* state.replay_state.lock().unwrap(): waits for the lock; panics on a
\* poisoned mutex
ConcLock(c) ==
    /\ Stmt(c) = "lock"
    /\ CanLock(c)
    /\ \E oc \in IF calls[c].op = "step_forward" THEN OverflowChecks ELSE {FALSE} :
          /\ serial' = Sequential([calls[c] EXCEPT !.oc = oc], serial)
          /\ IF poisoned
             THEN Leave(c)
             ELSE /\ calls' = [calls EXCEPT ![c].pc = @ + 1, ![c].oc = oc]
                  /\ mutex' = Some(c)
    /\ UNCHANGED <<store, replay, poisoned, last, chain, appVars>>

\* if replay.data.is_empty() { return Err(..) }
ConcIsEmpty(c) ==
    /\ Stmt(c) = "is_empty"
    /\ IF Len(replay.data) = 0
       THEN Leave(c)
       ELSE Advance(c) /\ UNCHANGED mutex
    /\ UNCHANGED <<store, replay, poisoned, last, chain, appVars, serial>>

\* one assignment to a field of the guarded ReplayState; a panic unwinds
\* with the guard alive and poisons the mutex
ConcAssign(c) ==
    /\ Stmt(c) \in {"symbol", "data", "current_index", "speed", "is_playing"}
    /\ IF StmtPanics(calls[c], Stmt(c), replay)
       THEN /\ poisoned' = TRUE
            /\ Leave(c)
            /\ UNCHANGED replay
       ELSE /\ replay' = Assign(calls[c], Stmt(c), replay)
            /\ Advance(c)
            /\ UNCHANGED <<poisoned, mutex>>
    /\ UNCHANGED <<store, last, chain, appVars, serial>>

\* the returned value is built and the guard dropped
ConcReturn(c) ==
    /\ Stmt(c) = "return"
    /\ poisoned' = (poisoned \/ StmtPanics(calls[c], "return", replay))
    /\ Leave(c)
    /\ UNCHANGED <<store, replay, last, chain, appVars, serial>>

NextConc ==
    \/ ConcImport
    \/ \E c \in Callers :
          \/ ConcCall(c)
          \/ ConcGetOhlcv(c)
          \/ ConcLock(c)
          \/ ConcIsEmpty(c)
          \/ ConcAssign(c)
          \/ ConcReturn(c)

SpecConc == InitConc /\ [][NextConc]_vars

(***************************************************************************)
(* Properties of the replay commands                                       *)
(***************************************************************************)
Loaded(r) == Len(r.data) > 0
CursorOps == {"step_forward", "step_backward", "seek_to_index"}
\* the count a step command moved by
StepCount(arg) == UnwrapOr(arg, 1)
\* the progress value is 1.0
IsOne(progress) == progress.num = progress.den

\* C1: whenever a session is loaded the cursor is within [0, len-1], and a
\* successful step_forward, step_backward or seek_to_index leaves
\* is_playing = false whatever it was before.
C1_CursorInRangeAndStepPauses ==
    /\ Loaded(replay) =>
          /\ 0 <= replay.current_index
          /\ replay.current_index <= Len(replay.data) - 1
    /\ (last.op \in CursorOps /\ last.outcome = "ok") => replay.is_playing = FALSE

\* a clamped step_forward that interrupted autoplay
C1_Witness ==
    /\ last.op = "step_forward"
    /\ last.outcome = "ok"
    /\ last.pre.is_playing
    /\ Len(replay.data) >= 2
    /\ last.pre.current_index + StepCount(last.arg) > Len(replay.data) - 1
    /\ replay.current_index = Len(replay.data) - 1

\* C2: the progress returned by step_forward, step_backward and
\* seek_to_index is 1.0 exactly when the cursor is on the last candle.
C2_ProgressIsOneOnLastCandle ==
    (last.op \in CursorOps /\ last.outcome = "ok") =>
        (IsOne(last.ret.progress) <=> replay.current_index = Len(replay.data) - 1)

\* C3: load_replay_session on a symbol whose stored series is empty returns
\* an error and leaves the ReplayState as it was and usable.
C3_EmptyLoadFailsAndKeepsState ==
    (/\ last.op = "load_replay_session"
     /\ ~last.pre_poisoned
     /\ last.read = Some(<< >>)) =>
        /\ last.outcome = "err"
        /\ replay = last.pre
        /\ ~poisoned

\* C4: pause_replay succeeds in every reachable state and only sets
\* is_playing = false.
C4_PauseAlwaysSucceeds ==
    last.op = "pause_replay" =>
        /\ last.outcome = "ok"
        /\ replay = [last.pre EXCEPT !.is_playing = FALSE]

\* C5: start_replay returns the empty-session error and changes nothing when
\* no session is loaded; when one is loaded it succeeds and only sets
\* is_playing = true (so a second start gives the same state).
C5_StartReplayContract ==
    last.op = "start_replay" =>
        IF Loaded(last.pre)
        THEN /\ last.outcome = "ok"
             /\ replay = [last.pre EXCEPT !.is_playing = TRUE]
        ELSE /\ last.outcome = "err"
             /\ last.ret = [msg |-> "No replay session loaded"]
             /\ replay = last.pre

\* C6: stop_replay never fails, sets is_playing = false and
\* current_index = 0 and keeps symbol and data, so that on a loaded session
\* a following start_replay or step_forward succeeds.
C6_StopNeverFailsKeepsData ==
    last.op = "stop_replay" =>
        /\ last.outcome = "ok"
        /\ replay = [last.pre EXCEPT !.is_playing = FALSE, !.current_index = 0]
        /\ Loaded(last.pre) =>
              /\ start_replay(replay, poisoned).outcome = "ok"
              /\ \A steps \in StepOpts, oc \in OverflowChecks :
                     step_forward(replay, poisoned, oc, steps).outcome = "ok"

\* C7: on a loaded session with cursor i, step_forward(n) then
\* step_backward(n) returns the cursor to i whenever i + n <= len-1,
\* step_backward(n) then step_forward(n) returns it to i whenever i - n >= 0,
\* and when the first step was clamped the cursor stays within [0, len-1].
C7_StepRoundTrip ==
    IsSome(chain) =>
        LET i == Unwrap(chain)
            n == StepCount(last.arg)
            len == Len(replay.data)
        IN /\ (last.op = "step_backward" /\ i + n <= len - 1) => replay.current_index = i
           /\ (last.op = "step_forward" /\ i - n >= 0) => replay.current_index = i
           /\ 0 <= last.pre.current_index /\ last.pre.current_index <= len - 1
           /\ 0 <= replay.current_index /\ replay.current_index <= len - 1

\* a forward step by n >= 1 that was not clamped, undone by the backward step
C7_Witness ==
    /\ IsSome(chain)
    /\ last.op = "step_backward"
    /\ last.outcome = "ok"
    /\ StepCount(last.arg) >= 1
    /\ Unwrap(chain) + StepCount(last.arg) = last.pre.current_index
    /\ replay.current_index = Unwrap(chain)

\* C8: a successful load_replay_session replaces the prior session whatever
\* its state: data is the series stored for the symbol, current_index = 0,
\* speed = 1.0, is_playing = false, and the ReplayInfo has total_candles =
\* len, start_time and end_time of the first and the last candle.
C8_LoadReplacesSession ==
    (last.op = "load_replay_session" /\ last.outcome = "ok") =>
        LET symbol == last.arg[1]
            data == Unwrap(get_ohlcv(store, symbol))
        IN /\ replay.symbol = symbol
           /\ replay.data = data
           /\ replay.current_index = 0
           /\ replay.speed = 10
           /\ replay.is_playing = FALSE
           /\ last.ret.total_candles = Len(data)
           /\ last.ret.start_time = data[1].time
           /\ last.ret.end_time = data[Len(data)].time

\* C8 (amended): a successful load_replay_session replaces the prior session
\* whatever its state: data is the series the store held for the symbol
\* when the command read it (an import that completes between that read and
\* the command's lock is not reflected), current_index = 0, speed = 1.0,
\* is_playing = false, and the ReplayInfo has total_candles = len,
\* start_time and end_time of the first and the last candle of that series.
C8_LoadInstallsSeriesRead ==
    (last.op = "load_replay_session" /\ last.outcome = "ok") =>
        LET symbol == last.arg[1]
            data == Unwrap(last.read)
        IN /\ replay.symbol = symbol
           /\ replay.data = data
           /\ replay.current_index = 0
           /\ replay.speed = 10
           /\ replay.is_playing = FALSE
           /\ last.ret.total_candles = Len(data)
           /\ last.ret.start_time = data[1].time
           /\ last.ret.end_time = data[Len(data)].time

\* a load over a playing session of another symbol, moved and sped up, that
\* returns after an import replaced the series it had read
C8_Witness ==
    /\ last.op = "load_replay_session"
    /\ last.outcome = "ok"
    /\ Loaded(last.pre)
    /\ last.pre.is_playing
    /\ last.pre.symbol # replay.symbol
    /\ last.pre.current_index > 0
    /\ last.pre.speed # 10
    /\ last.pre.data # replay.data
    /\ get_ohlcv(store, replay.symbol) # Some(replay.data)
    /\ Len(Unwrap(get_ohlcv(store, replay.symbol))) > Len(replay.data)

\* C9: get_replay_state never fails and never modifies the ReplayState; it
\* returns the empty projection when no session is loaded and otherwise
\* the session's symbol, a timeframe label as given to load_replay_session,
\* current_index, total_candles, speed and is_playing. Stated here for
\* calls that find the mutex unpoisoned.
C9_SnapshotProjectsFullState ==
    (last.op = "get_replay_state" /\ ~last.pre_poisoned) =>
        /\ last.outcome = "ok"
        /\ replay = last.pre
        /\ IF Loaded(replay)
           THEN /\ last.ret.is_loaded
                /\ last.ret.symbol = replay.symbol
                /\ last.ret.timeframe \in TimeframeLabels
                /\ last.ret.current_index = replay.current_index
                /\ last.ret.total_candles = Len(replay.data)
                /\ last.ret.speed = replay.speed
                /\ last.ret.is_playing = replay.is_playing
           ELSE /\ ~last.ret.is_loaded
                /\ last.ret.current_index = 0
                /\ last.ret.total_candles = 0
                /\ last.ret.speed = 10
                /\ last.ret.symbol = ""
                /\ last.ret.timeframe = ""

\* C10: set_replay_speed(v) never fails, stores v clamped to [0.1, 10.0] and
\* changes nothing else; the speed is within [0.1, 10.0] in every state.
C10_SetSpeedClampsNeverFails ==
    /\ 1 <= replay.speed /\ replay.speed <= 100
    /\ last.op = "set_replay_speed" =>
          /\ last.outcome = "ok"
          /\ replay = [last.pre EXCEPT !.speed = ClampSpeed(last.arg[1])]

ReplayOps == {"load_replay_session", "start_replay", "pause_replay", "stop_replay",
              "step_forward", "step_backward", "set_replay_speed", "seek_to_index",
              "get_replay_state"}

\* C11: a replay command that returns an error (start_replay, step_forward,
\* step_backward, seek_to_index on an empty session, load_replay_session for
\* a symbol with no stored series) leaves symbol, data, current_index, speed
\* and is_playing as they were.
C11_ErrorLeavesStateUnchanged ==
    (last.op \in ReplayOps /\ last.outcome = "err") =>
        /\ replay = last.pre
        /\ poisoned = last.pre_poisoned

\* a load for a symbol with no stored series, over a loaded and playing session
C11_Witness ==
    /\ last.op = "load_replay_session"
    /\ last.outcome = "err"
    /\ get_ohlcv(store, last.arg[1]) = None
    /\ last.read = None
    /\ Loaded(last.pre)
    /\ last.pre.is_playing
    /\ last.pre.current_index > 0

\* C16: Playing is reachable only from Loaded: is_playing = true implies the
\* session data is non-empty, in every reachable state.
C16_PlayingImpliesLoaded ==
    replay.is_playing => Loaded(replay)

\* a loaded session started in the middle of its series
C16_Witness ==
    /\ replay.is_playing
    /\ Loaded(replay)
    /\ replay.current_index > 0
    /\ last.op = "start_replay"
    /\ last.outcome = "ok"

\* C17: for every step count n of the machine word, step_forward(n) on a
\* loaded session with cursor i succeeds and sets current_index to
\* min(i + n, len-1), the sum being the mathematical one.
C17_StepForwardNeverWraps ==
    (last.op = "step_forward" /\ Loaded(last.pre) /\ ~last.pre_poisoned) =>
        /\ last.outcome = "ok"
        /\ replay.current_index =
              Min(last.pre.current_index + StepCount(last.arg), Len(last.pre.data) - 1)

(***************************************************************************)
(* Properties of the data commands                                         *)
(***************************************************************************)
\* all six fields of the row parse
WellFormed(row) ==
    /\ Len(row) = 6
    /\ IsSome(ParseI64(row[1]))
    /\ \A j \in 2..6 : IsSome(ParseDecimal(row[j]))

\* a six-field row whose only malformed field is open
OpenUnparseable(row) ==
    /\ Len(row) = 6
    /\ IsSome(ParseI64(row[1]))
    /\ ~IsSome(ParseDecimal(row[2]))
    /\ \A j \in 3..6 : IsSome(ParseDecimal(row[j]))

\* the candle that carries the six parsed values of a well-formed row
CandleOf(row) ==
    [time   |-> Unwrap(ParseI64(row[1])),
     open   |-> Unwrap(ParseDecimal(row[2])),
     high   |-> Unwrap(ParseDecimal(row[3])),
     low    |-> Unwrap(ParseDecimal(row[4])),
     close  |-> Unwrap(ParseDecimal(row[5])),
     volume |-> Unwrap(ParseDecimal(row[6]))]

\* the last command was an import that got past the timeframe check
ImportHandled ==
    /\ last.op = "import_csv_data"
    /\ binary = "app" => IsSome(TimeFrameFromStr(last.arg.timeframe))

\* the data rows of the imported file as the binary reads them: src/src
\* takes the first line for the header
RowsRead == IF binary = "tauri" THEN last.arg.file ELSE CsvRecords(last.arg.file)
\* the count the import returned
ImportCount == IF binary = "tauri" THEN last.ret.count ELSE last.ret.candles_imported
\* the series saved for the imported symbol
SavedSeries ==
    IF binary = "tauri" THEN get_ohlcv(store, last.arg.symbol)
    ELSE db_get_ohlcv(db, last.arg.symbol, last.arg.timeframe)

Times(candles) == [k \in 1..Len(candles) |-> candles[k].time]

\* C12: in both binaries a row with a malformed field is skipped and the
\* import continues: the count and the saved series hold exactly the
\* well-formed rows. Stated for files whose malformed rows have an
\* unparseable open field.
C12_MalformedRowsAreSkipped ==
    (/\ ImportHandled
     /\ \A k \in 1..Len(RowsRead) :
            WellFormed(RowsRead[k]) \/ OpenUnparseable(RowsRead[k])) =>
        LET good == SelectSeq(RowsRead, WellFormed)
        IN /\ last.outcome = "ok"
           /\ ImportCount = Len(good)
           /\ SavedSeries = Some(SavedSeries[1])
           /\ Times(SavedSeries[1]) = [k \in 1..Len(good) |-> CandleOf(good[k]).time]

\* C13: get_data_window on an existing series returns the sub-sequence from
\* start_idx to min(end_idx, len) for every pair of indices; it fails only
\* with InvalidTimeframe or SymbolNotFound and never aborts.
C13_WindowNeverAborts ==
    last.op = "get_data_window" =>
        /\ last.outcome \in {"ok", "err"}
        /\ last.outcome = "err" =>
              \/ ~IsSome(TimeFrameFromStr(last.arg.timeframe))
              \/ ~IsSome(db_get_ohlcv(db, last.arg.symbol, last.arg.timeframe))
        /\ last.outcome = "ok" =>
              LET data == Unwrap(db_get_ohlcv(db, last.arg.symbol, last.arg.timeframe))
              IN last.ret = Responses(SubSeq(data, last.arg.start_idx + 1,
                                             Min(last.arg.end_idx, Len(data))))

\* C14: in both binaries load_ohlcv_data for a symbol with no stored series
\* fails (SymbolNotFound); it never returns a default such as an empty list.
C14_MissingSymbolIsAnError ==
    (/\ last.op = "load_ohlcv_data"
     /\ IF binary = "tauri"
        THEN ~IsSome(get_ohlcv(store, last.arg.symbol))
        ELSE /\ IsSome(TimeFrameFromStr(last.arg.timeframe))
             /\ ~IsSome(db_get_ohlcv(db, last.arg.symbol, last.arg.timeframe))) =>
        last.outcome = "err"

\* C19: each well-formed row is imported as one candle carrying its six
\* parsed values, volume included, in file order; no parsed field is
\* replaced by a default. Stated for files whose rows are all well-formed.
C19_RowsKeepAllSixFields ==
    (/\ ImportHandled
     /\ \A k \in 1..Len(RowsRead) : WellFormed(RowsRead[k])) =>
        /\ last.outcome = "ok"
        /\ SavedSeries = Some([k \in 1..Len(RowsRead) |-> CandleOf(RowsRead[k])])

(***************************************************************************)
(* Properties of the concurrent replay commands                            *)
(***************************************************************************)
\* C15: replay commands issued concurrently are serialized by the mutex:
\* whenever no command holds the lock, the ReplayState (and the poison flag)
\* is the one reached by running the commands one at a time in the order
\* they took the lock; the cursor of a loaded session is below len; the
\* stored data is a series of the stored symbol, also when two loads race.
C15_CommandsAreSerialized ==
    mutex = None =>
        /\ replay = serial.replay
        /\ poisoned = serial.poisoned
        /\ Loaded(replay) => replay.current_index < Len(replay.data)
        /\ replay.symbol # "" =>
              replay.data \in {ParseLines(file) : file \in ConcFiles(replay.symbol)}

\* two loads of different symbols race: one is between its assignments to
\* symbol and data while the other has read its series and waits for the lock
C15_Witness ==
    \E c \in Callers, d \in Callers :
        /\ c # d
        /\ calls[c].op = "load_replay_session" /\ Stmt(c) = "data" /\ mutex = Some(c)
        /\ calls[d].op = "load_replay_session" /\ Stmt(d) = "lock"
        /\ calls[c].arg # calls[d].arg
        /\ Unwrap(calls[c].data) # Unwrap(calls[d].data)

\* C18: no store I/O under the ReplayState lock: the holder of the lock is
\* never at the store read, and a load that holds the lock has read its
\* series already.
C18_NoStoreReadUnderLock ==
    \A c \in Callers :
        mutex = Some(c) =>
            /\ Stmt(c) # "get_ohlcv"
            /\ calls[c].op = "load_replay_session" => IsSome(calls[c].data)

\* a load reads the store while another command holds the lock
C18_Witness ==
    \E c \in Callers, d \in Callers :
        /\ mutex = Some(c)
        /\ calls[c].op = "load_replay_session"
        /\ Stmt(d) = "get_ohlcv"

====
